---- MODULE Spec2Model ----
(***************************************************************************)
(* printpdf, src/html.rs: the translation of a laid-out, styled node tree  *)
(* into a flat list of PDF drawing operations (xml_to_pages and the        *)
(* functions it calls).                                                    *)
(*                                                                         *)
(* The layout engine (azul) is an external collaborator: the model takes   *)
(* its results (the tree in rendering order, each node's resolved style,   *)
(* rectangle, node type and glyph run) as inputs chosen in Init.           *)
(*                                                                         *)
(* Every Op carries two fields the program does not have, `node` and       *)
(* `layer`: the node whose visit pushed it and the paint layer it belongs  *)
(* to.  They are history fields, read by the properties only.              *)
(***************************************************************************)
EXTENDS Integers, Sequences, FiniteSets, TLC

VARIABLES
    parent,      \* ContentGroup tree: parent[n] is n's parent, 0 for the root
    node,        \* per node: the resolved style, rectangle and node type
    page_height, \* config.page_height, in points
    xml,         \* per node: the text of its src attribute in the markup
    doc,         \* PdfDocument: xobjects and resources.fonts
    decodes,     \* per font key: calls of ParsedFont::from_bytes (a probe)
    ops,         \* the Vec<Op> under construction
    todo,        \* content groups still to visit (the recursion's stack)
    pc,          \* position in xml_to_pages
    result,      \* what xml_to_pages returned
    earlier      \* what the earlier calls of xml_to_pages returned, in order

vars == <<parent, node, page_height, xml, doc, decodes, ops, todo, pc, result, earlier>>

----------------------------------------------------------------------------
(* Bounds                                                                  *)

MaxNodes == 4
MaxGlyphs == 2

Nodes == 1 .. MaxNodes
ROOT == 1

----------------------------------------------------------------------------
(* Options and small helpers                                               *)

None == <<>>
Some(v) == <<v>>
IsSome(o) == Len(o) = 1
Unwrap(o) == o[1]
UnwrapOr(o, d) == IF IsSome(o) THEN o[1] ELSE d

RECURSIVE SeqOfSet(_)
SeqOfSet(S) ==
    IF S = {} THEN <<>>
    ELSE LET m == CHOOSE x \in S : \A y \in S : x <= y
         IN  <<m>> \o SeqOfSet(S \ {m})

RECURSIVE Concat(_)
Concat(ss) == IF ss = <<>> THEN <<>> ELSE Head(ss) \o Concat(Tail(ss))

----------------------------------------------------------------------------
(* Inputs: the render options                                              *)

\* config.images, a BTreeMap: iterated in key order
ImageNames == <<"a", "b", "c", "d", "e">>

\* What the bytes of each image source are: vector markup with its declared
\* width and height (each optional), a raster image with its pixel size, or
\* bytes that are neither.
ImageBytes(k) ==
    CASE k = "a" -> [fmt |-> "svg", width |-> Some(2), height |-> Some(4)]
      [] k = "b" -> [fmt |-> "svg", width |-> Some(2), height |-> None]
      [] k = "c" -> [fmt |-> "raster", width |-> 4, height |-> 2]
      [] k = "d" -> [fmt |-> "bad"]
      [] k = "e" -> [fmt |-> "svg", width |-> None, height |-> Some(4)]

\* a src attribute that names no entry of config.images
UnknownName == "zz"

SrcNames == {ImageNames[i] : i \in 1 .. Len(ImageNames)} \cup {UnknownName}

\* font-family hashes the layout engine resolved (StyleFontFamilyHash)
FontKeys == {1, 2}
\* whether ParsedFont::from_bytes accepts the bytes registered for the key
FontBytesOk(k) == k = 1
\* a text node whose font family is not in the renderer resources
NoFontKey == None

Red == [r |-> 255, g |-> 0, b |-> 0]
Blue == [r |-> 0, g |-> 0, b |-> 255]
Black == [r |-> 0, g |-> 0, b |-> 0]

\* the resolved text style of every text node
TextStyle == [font_size_px |-> 12, color |-> Black]

----------------------------------------------------------------------------
(* Inputs: the styled, positioned tree                                     *)

NoBorder == None
TopBorder == Some([width |-> 1, color |-> Blue])

BgColor(c) == [kind |-> "Color", c |-> c]
BgOther(k) == [kind |-> k]

\* resolved background-content lists
BgLists ==
    { <<>>,
      <<BgColor(Red)>>,
      <<BgOther("LinearGradient"), BgOther("Image")>>,
      <<BgColor(Red), BgOther("Image"), BgColor(Blue)>> }

Div == [kind |-> "div", src |-> "", font |-> NoFontKey, shaped |-> FALSE, glyphs |-> 0]
Img(k) == [kind |-> "img", src |-> k, font |-> NoFontKey, shaped |-> FALSE, glyphs |-> 0]
Text(f, s, g) == [kind |-> "text", src |-> "", font |-> Some(f), shaped |-> s, glyphs |-> g]

Styled(hidden, bgs, border, content, rect) ==
    [hidden |-> hidden, bgs |-> bgs, border |-> border,
     kind |-> content.kind, src |-> content.src, font |-> content.font,
     shaped |-> content.shaped, glyphs |-> content.glyphs,
     x |-> rect.x, y |-> rect.y, width |-> rect.width, height |-> rect.height]

Rect(x, y, w, h) == [x |-> x, y |-> y, width |-> w, height |-> h]

\* the rectangle of node n in the whole-tree inputs
RectOf(n) == Rect(n, 2 * n, 4, 6)

\* whole-tree inputs: a palette of node styles
Palette == {"hidden", "text", "badfont"}

StyleOf(n, name) ==
    CASE name = "hidden" ->
            Styled(TRUE, <<BgColor(Red)>>, NoBorder, Text(1, TRUE, 1), RectOf(n))
      [] name = "text" ->
            Styled(FALSE, <<BgColor(Blue)>>, TopBorder, Text(1, TRUE, 1), RectOf(n))
      [] name = "badfont" ->
            Styled(FALSE, <<BgColor(Red)>>, NoBorder, Text(2, TRUE, 1), RectOf(n))

\* single-node inputs: every combination of one node's attributes
Contents ==
    {Div} \cup {Img(k) : k \in SrcNames}
          \cup {Text(f, s, g) : f \in FontKeys, s \in BOOLEAN, g \in 0 .. MaxGlyphs}
          \cup {[Text(1, TRUE, 1) EXCEPT !.font = NoFontKey]}

Rects == {Rect(1, 2, w, h) : w \in {0, 4}, h \in {0, 6}}

AllStyles ==
    {Styled(hid, bgs, bd, c, r) :
        hid \in BOOLEAN, bgs \in BgLists, bd \in {NoBorder, TopBorder},
        c \in Contents, r \in Rects}

Plain == Styled(FALSE, <<>>, NoBorder, Div, Rect(0, 0, 4, 6))

PageHeights == {297}

\* trees: parent[n] < n, children of a node in increasing order
Trees == {p \in [Nodes -> 0 .. MaxNodes] :
            /\ p[ROOT] = 0
            /\ \A n \in Nodes \ {ROOT} : p[n] \in 1 .. (n - 1)}

\* the two-node tree of the single-node inputs (other nodes hang off the root)
Pair == [n \in Nodes |-> IF n = ROOT THEN 0 ELSE ROOT]

----------------------------------------------------------------------------
(* The tree                                                                *)

\* a walk that takes the children last to first
ChildrenReversed(n) ==
    LET S == {m \in Nodes : parent[m] = n}
        up == SeqOfSet(S)
    IN  [i \in 1 .. Len(up) |-> up[Len(up) + 1 - i]]

\* root_content_group.children, in order
Children(n) == SeqOfSet({m \in Nodes : parent[m] = n})

RECURSIVE IsAncestor(_, _)
\* a is a proper ancestor of n
IsAncestor(a, n) ==
    /\ parent[n] # 0
    /\ (parent[n] = a \/ IsAncestor(a, parent[n]))

----------------------------------------------------------------------------
(* Pre-pass: fixup_xml                                                     *)

\* crate::Svg::parse on the bytes read as UTF-8
SvgParse(bytes) == IF bytes.fmt = "svg" THEN Some(bytes) ELSE None

\* crate::image::RawImage::decode_from_bytes
DecodeFromBytes(bytes) == IF bytes.fmt = "raster" THEN Some(bytes) ELSE None

\* the id doc.add_xobject / doc.add_image hands out for the next resource
NewXObjectId(d) == Len(d.xobjects) + 1

\* doc.add_xobject and doc.add_image: one more entry in the document
AddXObject(d, k, kind) ==
    [d EXCEPT !.xobjects = Append(@, [id |-> NewXObjectId(d), from |-> k, kind |-> kind])]

\* serde_json::to_string(&img_info): the text of a JSON object
ToJson(info) == [text |-> "json", v |-> info]

\* the text of an attribute as written in the markup: a logical name
Name(k) == [text |-> "name", v |-> k]

\* serde_json::from_slice::<ImageInfo>(tag).ok(): only the text of a JSON
\* object with ImageInfo's fields parses; a bare logical name does not
FromJson(tag) == IF tag.text = "json" THEN Some(tag.v) ELSE None

\* what the loop body builds for one source: None when it hits `continue`
ImgInfoOf(d, k) ==
    LET bytes == ImageBytes(k)
        opt_svg == SvgParse(bytes)
    IN  IF IsSome(opt_svg)
        THEN Some([original_id |-> k, xobject_id |-> NewXObjectId(d),
                   image_type |-> "Svg",
                   width |-> UnwrapOr(Unwrap(opt_svg).width, 0),
                   height |-> UnwrapOr(Unwrap(opt_svg).height, 0)])
        ELSE IF IsSome(DecodeFromBytes(bytes))
        THEN Some([original_id |-> k, xobject_id |-> NewXObjectId(d),
                   image_type |-> "Image",
                   width |-> Unwrap(DecodeFromBytes(bytes)).width,
                   height |-> Unwrap(DecodeFromBytes(bytes)).height])
        ELSE None

\* s.replace("src='k'", "src='json'"), on both quoting styles
ReplaceSrc(s, k, json) ==
    [n \in DOMAIN s |-> IF s[n].text = "name" /\ s[n].v = k THEN json ELSE s[n]]

\* an iteration that registers a placeholder for bytes it cannot decode
FixupImagePlaceholder(st, k) ==
    LET info == ImgInfoOf(st.doc, k)
        dflt == [original_id |-> k, xobject_id |-> NewXObjectId(st.doc),
                 image_type |-> "Image", width |-> 0, height |-> 0]
    IN  IF IsSome(info)
        THEN [doc |-> AddXObject(st.doc, k, Unwrap(info).image_type),
              s |-> ReplaceSrc(st.s, k, ToJson(Unwrap(info)))]
        ELSE [doc |-> AddXObject(st.doc, k, "Image"),
              s |-> ReplaceSrc(st.s, k, ToJson(dflt))]

\* one iteration of `for (k, image_bytes) in config.images.iter()`
FixupImage(st, k) ==
    LET info == ImgInfoOf(st.doc, k)
    IN  IF IsSome(info)
        THEN [doc |-> AddXObject(st.doc, k, Unwrap(info).image_type),
              s |-> ReplaceSrc(st.s, k, ToJson(Unwrap(info)))]
        ELSE st

RECURSIVE FixupLoopUnordered(_, _)
\* a loop over a map whose iteration order differs from one call to the next
FixupLoopUnordered(st, i) ==
    IF i > Len(ImageNames) THEN st
    ELSE LET at == IF earlier = <<>> THEN i ELSE Len(ImageNames) + 1 - i
         IN  FixupLoopUnordered(FixupImage(st, ImageNames[at]), i + 1)

RECURSIVE FixupLoop(_, _)
\* the loop from its i-th key on
FixupLoop(st, i) ==
    IF i > Len(ImageNames) THEN st
    ELSE FixupLoop(FixupImage(st, ImageNames[i]), i + 1)

\* fixup_xml: the <body> / <html> wrapping leaves the src attributes as they
\* are; the loop registers the images and rewrites the attributes
FixupXml ==
    /\ pc = "fixup_xml"
    /\ LET out == FixupLoop([doc |-> doc, s |-> xml], 1)
       IN  /\ doc' = out.doc
           /\ xml' = out.s
    /\ pc' = "parse_xml"
    /\ UNCHANGED <<parent, node, page_height, decodes, ops, todo, result, earlier>>

----------------------------------------------------------------------------
(* Per-node extraction                                                     *)

\* is_display_none
IsDisplayNone(n) == node[n].hidden

\* get_background_content: image backgrounds are dropped
GetBackgroundContent(n) == SelectSeq(node[n].bgs, LAMBDA b : b.kind # "Image")

\* get_opt_border
GetOptBorder(n) == node[n].border

\* get_image_node: the ImageInfo read back from the node's NullImage tag
GetImageNode(n) == IF node[n].kind = "img" THEN FromJson(xml[n]) ELSE None

\* FontId(format!("azul_font_family_{:032}", sffh.0))
FontIdOf(k) == <<"azul_font_family_", k>>

\* a get_text_node that decodes without looking the id up first
GetTextNodeNoLookup(n, fonts) ==
    LET miss == [text |-> None, fonts |-> fonts, decoded |-> None]
    IN  IF node[n].kind # "text" THEN miss
        ELSE IF ~IsSome(node[n].font) THEN miss
        ELSE IF ~node[n].shaped THEN miss
        ELSE LET k == Unwrap(node[n].font)
                 id == FontIdOf(k)
                 text == [id |-> id, color |-> TextStyle.color,
                          font_size_px |-> TextStyle.font_size_px,
                          glyphs |-> node[n].glyphs]
             IN  IF ~FontBytesOk(k)
                 THEN [text |-> None, fonts |-> fonts, decoded |-> Some(k)]
                 ELSE [text |-> Some(text),
                       fonts |-> (id :> [font |-> k, by |-> n]) @@ fonts,
                       decoded |-> Some(k)]

\* a get_text_node that decodes a missing font and does not insert it
GetTextNodeNoInsert(n, fonts) ==
    LET miss == [text |-> None, fonts |-> fonts, decoded |-> None]
    IN  IF node[n].kind # "text" THEN miss
        ELSE IF ~IsSome(node[n].font) THEN miss
        ELSE IF ~node[n].shaped THEN miss
        ELSE LET k == Unwrap(node[n].font)
                 id == FontIdOf(k)
                 text == [id |-> id, color |-> TextStyle.color,
                          font_size_px |-> TextStyle.font_size_px,
                          glyphs |-> node[n].glyphs]
             IN  IF id \in DOMAIN fonts
                 THEN [text |-> Some(text), fonts |-> fonts, decoded |-> None]
                 ELSE IF ~FontBytesOk(k)
                 THEN [text |-> None, fonts |-> fonts, decoded |-> Some(k)]
                 ELSE [text |-> Some(text), fonts |-> fonts, decoded |-> Some(k)]

\* get_text_node: [text: Option of (inline text, font id, color), fonts: the
\* font table afterwards, decoded: Option of the key whose bytes were decoded]
GetTextNode(n, fonts) ==
    LET miss == [text |-> None, fonts |-> fonts, decoded |-> None]
    IN  IF node[n].kind # "text" THEN miss
        ELSE IF ~IsSome(node[n].font) THEN miss
        ELSE IF ~node[n].shaped THEN miss
        ELSE LET k == Unwrap(node[n].font)
                 id == FontIdOf(k)
                 text == [id |-> id, color |-> TextStyle.color,
                          font_size_px |-> TextStyle.font_size_px,
                          glyphs |-> node[n].glyphs]
             IN  IF id \in DOMAIN fonts
                 THEN [text |-> Some(text), fonts |-> fonts, decoded |-> None]
                 ELSE IF ~FontBytesOk(k)
                 THEN [text |-> None, fonts |-> fonts, decoded |-> Some(k)]
                 ELSE [text |-> Some(text),
                       fonts |-> (id :> [font |-> k, by |-> n]) @@ fonts,
                       decoded |-> Some(k)]

\* text.get_layouted_glyphs(): glyph i of a run, at its advance position
GlyphAt(i) == [index |-> i, x |-> 3 * i, y |-> 1]

----------------------------------------------------------------------------
(* Emission: displaylist_handle_rect                                       *)

\* crate::Rgb from a ColorU: channel / 255.0 (channels here are 0 or 255)
ToRgb(c) == [r |-> c.r \div 255, g |-> c.g \div 255, b |-> c.b \div 255]

\* a vertical coordinate passed through without the flip
FlipYMissing(y) == y

\* page_height.0 - staticoffset.y
FlipY(y) == page_height - y

\* crate::graphics::Rect of the node in page space
PageRect(n) ==
    [x |-> node[n].x, y |-> FlipY(node[n].y),
     width |-> node[n].width, height |-> node[n].height]

\* a background layer that draws before it sets the color
FillLayerOpsDrawFirst(n, b) ==
    IF b.kind = "Color"
    THEN << [op |-> "DrawPolygon", rect |-> PageRect(n), node |-> n, layer |-> "fill"],
            [op |-> "SetFillColor", col |-> ToRgb(b.c), node |-> n, layer |-> "fill"] >>
    ELSE <<>>

\* the two ops of one background layer
FillLayerOps(n, b) ==
    IF b.kind = "Color"
    THEN << [op |-> "SetFillColor", col |-> ToRgb(b.c), node |-> n, layer |-> "fill"],
            [op |-> "DrawPolygon", rect |-> PageRect(n), node |-> n, layer |-> "fill"] >>
    ELSE <<>>

\* for b in background_content.iter()
FillOps(n) ==
    LET bgs == GetBackgroundContent(n)
    IN  Concat([i \in 1 .. Len(bgs) |-> FillLayerOps(n, bgs[i])])

\* if let Some(border) = opt_border
BorderOps(n) ==
    LET border == GetOptBorder(n)
    IN  IF IsSome(border)
        THEN << [op |-> "SetOutlineThickness", pt |-> Unwrap(border).width,
                 node |-> n, layer |-> "border"],
                [op |-> "SetOutlineColor", col |-> ToRgb(Unwrap(border).color),
                 node |-> n, layer |-> "border"],
                [op |-> "DrawLine", rect |-> PageRect(n), node |-> n, layer |-> "border"] >>
        ELSE <<>>

\* source_width and source_height as the image layer reads them
SourceSize(image_info) == [width |-> image_info.width, height |-> image_info.width]

\* an is_zero that looks at the source size only
IsZeroSourceOnly(n, source) ==
    \/ source.height = 0
    \/ source.width = 0

\* is_zero
IsZero(n, source) ==
    \/ node[n].width = 0
    \/ node[n].height = 0
    \/ source.height = 0
    \/ source.width = 0

\* if let Some(image_info) = opt_image; a scale is the pair <<target, source>>
ImageOps(n) ==
    LET opt_image == GetImageNode(n)
    IN  IF IsSome(opt_image) /\ ~IsZero(n, SourceSize(Unwrap(opt_image)))
        THEN << [op |-> "UseXObject", id |-> Unwrap(opt_image).xobject_id,
                 translate_x |-> node[n].x, translate_y |-> FlipY(node[n].y),
                 scale_x |-> <<node[n].width, SourceSize(Unwrap(opt_image)).width>>,
                 scale_y |-> <<node[n].height, SourceSize(Unwrap(opt_image)).height>>,
                 node |-> n, layer |-> "image"] >>
        ELSE <<>>

\* a glyph loop that does not reset the text cursor
GlyphOpsNoCursor(n, text, gi) ==
    << [op |-> "SetTextMatrix",
        tx |-> node[n].x + gi.x * 2,
        ty |-> FlipY(node[n].y) - gi.y,
        node |-> n, layer |-> "text"],
       [op |-> "WriteCodepoints", font |-> text.id, size |-> text.font_size_px * 2,
        cp |-> gi.index, node |-> n, layer |-> "text"] >>

\* the three ops of one glyph
GlyphOps(n, text, gi) ==
    << [op |-> "SetTextCursor", x |-> 0, y |-> 0, node |-> n, layer |-> "text"],
       [op |-> "SetTextMatrix",
        tx |-> node[n].x + gi.x * 2,
        ty |-> FlipY(node[n].y) - gi.y,
        node |-> n, layer |-> "text"],
       [op |-> "WriteCodepoints", font |-> text.id, size |-> text.font_size_px * 2,
        cp |-> gi.index, node |-> n, layer |-> "text"] >>

\* if let Some((text, id, color, space_index)) = opt_text
TextOps(n, opt_text) ==
    IF IsSome(opt_text)
    THEN LET text == Unwrap(opt_text)
         IN  << [op |-> "StartTextSection", node |-> n, layer |-> "text"],
                [op |-> "SetFillColor", col |-> ToRgb(text.color), node |-> n, layer |-> "text"],
                [op |-> "SetTextRenderingMode", mode |-> "Fill", node |-> n, layer |-> "text"],
                [op |-> "SetWordSpacing", percent |-> 100, node |-> n, layer |-> "text"],
                [op |-> "SetLineHeight", lh |-> text.font_size_px, node |-> n, layer |-> "text"] >>
             \o Concat([i \in 1 .. text.glyphs |-> GlyphOps(n, text, GlyphAt(i))])
             \o << [op |-> "EndTextSection", node |-> n, layer |-> "text"] >>
    ELSE <<>>

\* a bracket pushed whether or not newops holds an instruction
BracketedAlways(n, newops) ==
    << [op |-> "SaveGraphicsState", node |-> n, layer |-> "state"] >>
    \o newops
    \o << [op |-> "RestoreGraphicsState", node |-> n, layer |-> "state"] >>

\* if !newops.is_empty()
Bracketed(n, newops) ==
    IF newops # <<>>
    THEN << [op |-> "SaveGraphicsState", node |-> n, layer |-> "state"] >>
         \o newops
         \o << [op |-> "RestoreGraphicsState", node |-> n, layer |-> "state"] >>
    ELSE <<>>

\* a visit that saves the graphics state before any layer is pushed
EmittedSaveFirst(n, opt_text) ==
    IF FillOps(n) \o BorderOps(n) # <<>>
    THEN << [op |-> "SaveGraphicsState", node |-> n, layer |-> "state"] >>
         \o ImageOps(n) \o TextOps(n, opt_text)
         \o FillOps(n) \o BorderOps(n)
         \o << [op |-> "RestoreGraphicsState", node |-> n, layer |-> "state"] >>
    ELSE ImageOps(n) \o TextOps(n, opt_text)

\* what one visit appends to ops: the image and text layers are pushed as
\* they are built, newops (fills, border) is appended at the end
Emitted(n, opt_text) ==
    ImageOps(n) \o TextOps(n, opt_text) \o Bracketed(n, FillOps(n) \o BorderOps(n))

\* displaylist_handle_rect: [some: whether it returned Some(()), ops, fonts,
\* decoded]
DisplaylistHandleRect(n, o, fonts) ==
    IF IsDisplayNone(n)
    THEN [some |-> FALSE, ops |-> o, fonts |-> fonts, decoded |-> None]
    ELSE LET t == GetTextNode(n, fonts)
         IN  [some |-> TRUE, ops |-> o \o Emitted(n, t.text),
              fonts |-> t.fonts, decoded |-> t.decoded]

----------------------------------------------------------------------------
(* xml_to_pages                                                            *)

EmptyDocument == [xobjects |-> <<>>, fonts |-> <<>>]

\* no call has returned yet
NoResult == [ok |-> FALSE, err |-> "", pages |-> <<>>]

\* the state xml_to_pages starts in, for a given tree and page height
Start(p, nd, h) ==
    /\ parent = p
    /\ node = nd
    /\ page_height = h
    /\ xml = [n \in Nodes |-> Name(nd[n].src)]
    /\ doc = EmptyDocument
    /\ decodes = [k \in FontKeys |-> 0]
    /\ ops = <<>>
    /\ todo = <<>>
    /\ pc = "fixup_xml"
    /\ result = NoResult
    /\ earlier = <<>>

\* whole trees, each node styled from the palette
InitTree ==
    \E p \in Trees :
        \E style \in [Nodes -> Palette] :
            \E h \in PageHeights :
                Start(p, [n \in Nodes |-> StyleOf(n, style[n])], h)

\* one node with every combination of attributes, the others plain
InitNode ==
    \E focus \in {ROOT, ROOT + 1} :
        \E st \in AllStyles :
            \E h \in PageHeights :
                Start(Pair, [n \in Nodes |-> IF n = focus THEN st ELSE Plain], h)

Init == InitTree \/ InitNode

\* parse_xml_string fails: `?` returns the error
ParseXmlErr ==
    /\ pc = "parse_xml"
    /\ pc' = "done"
    /\ result' = [ok |-> FALSE, err |-> "Error parsing XML", pages |-> <<>>]
    /\ UNCHANGED <<parent, node, page_height, xml, doc, decodes, ops, todo, earlier>>

\* str_to_dom fails: `?` returns the error
StrToDomErr ==
    /\ pc = "parse_xml"
    /\ pc' = "done"
    /\ result' = [ok |-> FALSE, err |-> "Error constructing DOM", pages |-> <<>>]
    /\ UNCHANGED <<parent, node, page_height, xml, doc, decodes, ops, todo, earlier>>

\* parsing, DOM construction and solve_layout succeed
SolveLayout ==
    /\ pc = "parse_xml"
    /\ pc' = "layout_result_to_ops"
    /\ UNCHANGED <<parent, node, page_height, xml, doc, decodes, ops, todo, result, earlier>>

\* the decode probe after one visit
Probe(d, decoded) ==
    IF IsSome(decoded) THEN [d EXCEPT ![Unwrap(decoded)] = @ + 1] ELSE d

\* the content groups layout_result_to_ops goes on to after the root's visit:
\* the visit's result is dropped (`let _ =`)
AfterRoot(r) == Children(ROOT)

\* the content groups push_rectangles_into_displaylist goes on to after the
\* visit of n: none when the visit returned None (`?`)
AfterGroup(n, r) == IF r.some THEN Children(n) ELSE <<>>

\* layout_result_to_ops: the root's visit
LayoutResultToOps ==
    /\ pc = "layout_result_to_ops"
    /\ LET r == DisplaylistHandleRect(ROOT, ops, doc.fonts)
       IN  /\ ops' = r.ops
           /\ doc' = [doc EXCEPT !.fonts = r.fonts]
           /\ decodes' = Probe(decodes, r.decoded)
           /\ todo' = AfterRoot(r)
    /\ pc' = "push_rectangles"
    /\ UNCHANGED <<parent, node, page_height, xml, result, earlier>>

\* push_rectangles_into_displaylist: the visit of the next content group
PushRectanglesIntoDisplaylist ==
    /\ pc = "push_rectangles"
    /\ todo # <<>>
    /\ LET n == Head(todo)
           r == DisplaylistHandleRect(n, ops, doc.fonts)
       IN  /\ ops' = r.ops
           /\ doc' = [doc EXCEPT !.fonts = r.fonts]
           /\ decodes' = Probe(decodes, r.decoded)
           /\ todo' = AfterGroup(n, r) \o Tail(todo)
    /\ UNCHANGED <<parent, node, page_height, xml, pc, result, earlier>>

\* Ok(vec![PdfPage::new(page_width, page_height, ops)])
ReturnPages ==
    /\ pc = "push_rectangles"
    /\ todo = <<>>
    /\ pc' = "done"
    /\ result' = [ok |-> TRUE, err |-> "", pages |-> <<ops>>]
    /\ UNCHANGED <<parent, node, page_height, xml, doc, decodes, ops, todo, earlier>>

Next ==
    \/ FixupXml
    \/ ParseXmlErr
    \/ StrToDomErr
    \/ SolveLayout
    \/ LayoutResultToOps
    \/ PushRectanglesIntoDisplaylist
    \/ ReturnPages

Spec == Init /\ [][Next]_vars

\* a second call of xml_to_pages with the same markup, the same options and
\* a document in the state the first call was given
RenderAgain ==
    /\ pc = "done"
    /\ earlier = <<>>
    /\ earlier' = Append(earlier, result)
    /\ xml' = [n \in Nodes |-> Name(node[n].src)]
    /\ doc' = EmptyDocument
    /\ decodes' = [k \in FontKeys |-> 0]
    /\ ops' = <<>>
    /\ todo' = <<>>
    /\ pc' = "fixup_xml"
    /\ result' = NoResult
    /\ UNCHANGED <<parent, node, page_height>>

NextTwice == Next \/ RenderAgain

\* two calls in a row on the same input
SpecTwice == Init /\ [][NextTwice]_vars

----------------------------------------------------------------------------
(* Reading the stream                                                      *)

Idx == 1 .. Len(ops)

\* the positions of the stream pushed by the visit of n
OpsOf(n) == {i \in Idx : ops[i].node = n}

\* n or one of its descendants
InSubtree(a, n) == n = a \/ IsAncestor(a, n)

Finished == pc = "done" /\ result.ok

IsPaint(i) == ops[i].layer \in {"fill", "border"}

----------------------------------------------------------------------------
(* C1: for every node whose display is none, the root included, the        *)
(* stream holds no instruction of that node and none of its descendants.   *)
(* The code visits the children of a hidden root: layout_result_to_ops     *)
(* drops the None its visit returns.                                       *)

C1_VisibilityExclusion ==
    \A n \in Nodes :
        node[n].hidden => \A i \in Idx : ~InSubtree(n, ops[i].node)

----------------------------------------------------------------------------
(* C2: the instructions of one node come in the order fills, border,       *)
(* image, text.  The code pushes the image and text layers into the        *)
(* stream first and appends the fills and the border after them.           *)

LayerRank(l) ==
    CASE l = "fill" -> 1
      [] l = "border" -> 2
      [] l = "image" -> 3
      [] l = "text" -> 4

C2_EmissionOrder ==
    \A i, j \in Idx :
        /\ i < j
        /\ ops[i].node = ops[j].node
        /\ ops[i].layer # "state"
        /\ ops[j].layer # "state"
        => LayerRank(ops[i].layer) <= LayerRank(ops[j].layer)

----------------------------------------------------------------------------
(* C3: the fill and stroke instructions of a node lie between one          *)
(* SaveGraphicsState directly before them and one RestoreGraphicsState     *)
(* directly after them, both of that node, with nothing else in between.   *)

C3_StateBracketing ==
    \A n \in Nodes :
        LET mine == OpsOf(n)
            paint == {i \in mine : IsPaint(i)}
        IN  paint # {} =>
              \E s \in mine :
                  /\ ops[s].op = "SaveGraphicsState"
                  /\ \E e \in mine :
                        /\ ops[e].op = "RestoreGraphicsState"
                        /\ paint = (s + 1) .. (e - 1)
                        /\ \A i \in mine : ops[i].layer = "state" => i \in {s, e}

\* a node with fills, a border and an image, and another node's instructions
C3_Witness ==
    /\ Finished
    /\ \E n, m \in Nodes :
          /\ n # m
          /\ OpsOf(m) # {}
          /\ \E i, j, k \in OpsOf(n) :
                /\ ops[i].layer = "fill"
                /\ ops[j].layer = "border"
                /\ ops[k].layer \in {"image", "text"}

----------------------------------------------------------------------------
(* C4: the stream follows a depth-first pre-order walk: the instructions   *)
(* of a node precede those of its descendants, and for siblings A before B *)
(* the instructions of A's subtree precede those of B's subtree.           *)

\* x comes before y in a pre-order walk: x is an ancestor of y, or x and y lie in
\* the subtrees of two siblings, x in the earlier one's
Precedes(x, y) ==
    \/ IsAncestor(x, y)
    \/ \E a, b \in Nodes :
          /\ parent[a] = parent[b]
          /\ a < b
          /\ InSubtree(a, x)
          /\ InSubtree(b, y)

\* C4: whenever x comes before y in the pre-order walk, every instruction of
\* x precedes every instruction of y
C4_PainterOrder ==
    \A y \in Nodes :
        OpsOf(y) # {} =>
            \A x \in Nodes :
                (OpsOf(x) # {} /\ Precedes(x, y)) =>
                    \A i \in OpsOf(x) : \A j \in OpsOf(y) : i < j

\* every node has instructions, in a tree where the first of two siblings
\* has a child declared after the second sibling
C4_Witness ==
    /\ Finished
    /\ \A n \in Nodes : OpsOf(n) # {}
    /\ \E a, b, c \in Nodes :
          /\ parent[a] = parent[b] /\ parent[c] = a
          /\ a < b /\ b < c

----------------------------------------------------------------------------
(* C5: the fill rectangle, the border rectangle and the image translation  *)
(* of a node at (x, y) carry x unchanged and page_height - y.              *)

C5_CoordinateFlip ==
    \A i \in Idx :
        LET n == ops[i].node
        IN  /\ ops[i].op \in {"DrawPolygon", "DrawLine"} =>
                  /\ ops[i].rect.x = node[n].x
                  /\ ops[i].rect.y = page_height - node[n].y
            /\ ops[i].op = "UseXObject" =>
                  /\ ops[i].translate_x = node[n].x
                  /\ ops[i].translate_y = page_height - node[n].y

\* one node placed a fill, a border and an image
C5_Witness ==
    /\ Finished
    /\ \E i, j, k \in Idx :
          /\ ops[i].op = "DrawPolygon"
          /\ ops[j].op = "DrawLine"
          /\ ops[k].op = "UseXObject"
          /\ ops[i].node = ops[k].node
          /\ ops[j].node = ops[k].node
          /\ node[ops[k].node].y # page_height - node[ops[k].node].y

----------------------------------------------------------------------------
(* C6: font resources are registered once per key.                         *)

\* n is displayed: neither it nor one of its ancestors has display none
Visible(n) == \A a \in Nodes : InSubtree(a, n) => ~node[a].hidden

\* the visible text nodes that resolve to font-family key k
TextNodesOf(k) ==
    {n \in Nodes : /\ node[n].kind = "text"
                   /\ node[n].font = Some(k)
                   /\ node[n].shaped
                   /\ Visible(n)}

\* the entries of the font table made from key k
EntriesOf(k) == {id \in DOMAIN doc.fonts : doc.fonts[id].font = k}

(* C6 as claimed: after the walk, a key that N >= 1 visible text nodes     *)
(* resolve to has exactly one entry in the font table, under the name      *)
(* derived from the key, and its bytes were decoded exactly once, whatever *)
(* the decode returned.  A decode that fails inserts nothing, so the next  *)
(* text node of the key decodes again.                                     *)
C6_FontDedupAnyOutcome ==
    Finished =>
        \A k \in FontKeys :
            TextNodesOf(k) # {} =>
                /\ EntriesOf(k) = {FontIdOf(k)}
                /\ decodes[k] = 1

(* C6 amended: after the walk, a key that N >= 1 visible text nodes        *)
(* resolve to and whose bytes decode has exactly one entry in the font     *)
(* table, under the name derived from the key, and was decoded exactly     *)
(* once; a key whose bytes do not decode has no entry and was decoded at   *)
(* least once per such node.                                               *)
C6_FontDedup ==
    Finished =>
        \A k \in FontKeys :
            TextNodesOf(k) # {} =>
                IF FontBytesOk(k)
                THEN /\ EntriesOf(k) = {FontIdOf(k)}
                     /\ decodes[k] = 1
                ELSE /\ EntriesOf(k) = {}
                     /\ decodes[k] >= Cardinality(TextNodesOf(k))

\* two visible text nodes share a key that decodes, two share one that does not
C6_Witness ==
    /\ Finished
    /\ \E k, b \in FontKeys :
          /\ FontBytesOk(k) /\ Cardinality(TextNodesOf(k)) >= 2
          /\ ~FontBytesOk(b) /\ Cardinality(TextNodesOf(b)) >= 2

----------------------------------------------------------------------------
(* C7: every SetFillColor of a background layer is directly followed by    *)
(* the DrawPolygon of that layer's rectangle; every SetOutlineThickness is *)
(* directly followed by the node's SetOutlineColor and then its DrawLine;  *)
(* the stream never ends on a state-setting instruction.                   *)

StateSetting ==
    {"SetFillColor", "SetOutlineThickness", "SetOutlineColor", "SetTextRenderingMode",
     "SetWordSpacing", "SetLineHeight", "SetTextCursor", "SetTextMatrix"}

\* C7: fill color then polygon of the same rectangle, thickness then color
\* then line, and no state-setting instruction at the end of the stream
C7_StateConsumedInPlace ==
    /\ \A i \in Idx :
          /\ (ops[i].op = "SetFillColor" /\ ops[i].layer = "fill") =>
                /\ i + 1 <= Len(ops)
                /\ ops[i + 1].op = "DrawPolygon"
                /\ ops[i + 1].node = ops[i].node
                /\ ops[i + 1].rect = [x |-> node[ops[i].node].x,
                                      y |-> page_height - node[ops[i].node].y,
                                      width |-> node[ops[i].node].width,
                                      height |-> node[ops[i].node].height]
          /\ ops[i].op = "SetOutlineThickness" =>
                /\ i + 2 <= Len(ops)
                /\ ops[i + 1].op = "SetOutlineColor"
                /\ ops[i + 1].node = ops[i].node
                /\ ops[i + 2].op = "DrawLine"
                /\ ops[i + 2].node = ops[i].node
          /\ ops[i].op = "SetOutlineColor" =>
                /\ i > 1
                /\ ops[i - 1].op = "SetOutlineThickness"
    /\ ops # <<>> => ops[Len(ops)].op \notin StateSetting

\* a node with two solid fills and a border, then another node's instructions
C7_Witness ==
    /\ Finished
    /\ \E i, j \in Idx :
          /\ i + 2 < j
          /\ ops[i].op = "SetFillColor" /\ ops[i].layer = "fill"
          /\ ops[i + 2].op = "SetFillColor" /\ ops[i + 2].layer = "fill"
          /\ ops[j].op = "SetOutlineThickness"
          /\ ops[j].node = ops[i].node

----------------------------------------------------------------------------
(* C8: an image placement is emitted only when the node's resource         *)
(* descriptor has a non-zero intrinsic width and a non-zero intrinsic      *)
(* height.  The code reads the height from the width field.                *)

C8_IntrinsicSizeGuard ==
    \A i \in Idx :
        ops[i].op = "UseXObject" =>
            LET info == GetImageNode(ops[i].node)
            IN  /\ IsSome(info)
                /\ Unwrap(info).width # 0
                /\ Unwrap(info).height # 0

----------------------------------------------------------------------------
(* C9: an image node whose layout box has width 0 or height 0 has no image *)
(* placement, whatever the intrinsic size of its resource.                 *)

C9_ZeroAreaSuppression ==
    \A n \in Nodes :
        (node[n].kind = "img" /\ (node[n].width = 0 \/ node[n].height = 0)) =>
            \A i \in OpsOf(n) : ops[i].op # "UseXObject"

\* a displayed image node with a resolved, non-empty resource and a box of
\* width 0 was visited
C9_Witness ==
    /\ Finished
    /\ \E n \in Nodes :
          /\ node[n].kind = "img"
          /\ ~node[n].hidden
          /\ OpsOf(n) # {}
          /\ node[n].width = 0 /\ node[n].height # 0
          /\ IsSome(GetImageNode(n))
          /\ Unwrap(GetImageNode(n)).width # 0
          /\ Unwrap(GetImageNode(n)).height # 0

----------------------------------------------------------------------------
(* C10: an image source whose bytes are neither vector markup nor a raster *)
(* image gets no resource and its references stay as written, every other  *)
(* source is registered and its references rewritten, the render returns   *)
(* a page, and a node that references the bad source places no image.      *)

Undecodable(k) == ImgInfoOf(EmptyDocument, k) = None

Sources == {ImageNames[i] : i \in 1 .. Len(ImageNames)}

Registered(k) == \E i \in 1 .. Len(doc.xobjects) : doc.xobjects[i].from = k

\* C10: after the pre-pass only the decodable sources are registered and
\* rewritten, a finished render returns one page or a markup error, and no
\* node of an undecodable source places an image
C10_UndecodableImage ==
    /\ pc # "fixup_xml" =>
          \A k \in Sources :
              IF Undecodable(k)
              THEN /\ ~Registered(k)
                   /\ \A n \in Nodes : node[n].src = k => xml[n] = Name(k)
              ELSE /\ Registered(k)
                   /\ \A n \in Nodes : node[n].src = k => xml[n].text = "json"
    /\ pc = "done" =>
          \/ result.ok /\ Len(result.pages) = 1
          \/ result.err \in {"Error parsing XML", "Error constructing DOM"}
    /\ \A n \in Nodes :
          (node[n].src \in Sources /\ Undecodable(node[n].src)) =>
              \A i \in OpsOf(n) : ops[i].op # "UseXObject"

\* the render returned a page for a displayed image node of non-empty box
\* that references the undecodable source
C10_Witness ==
    /\ Finished
    /\ \E n \in Nodes :
          /\ node[n].kind = "img"
          /\ node[n].src \in Sources
          /\ Undecodable(node[n].src)
          /\ ~node[n].hidden
          /\ node[n].width # 0 /\ node[n].height # 0
          /\ OpsOf(n) # {}

----------------------------------------------------------------------------
(* C11: two calls on the same markup, the same image and font maps and the *)
(* same page size, each given a document in the same state, return the     *)
(* same operation stream, resource ids included.                           *)

BothReturned ==
    /\ pc = "done"
    /\ earlier # <<>>
    /\ result.ok
    /\ earlier[1].ok

----------------------------------------------------------------------------
(* C12: when the markup does not parse or the DOM cannot be built, the     *)
(* call returns one error and no page, and the document is as it was       *)
(* before the call.  The code runs fixup_xml, which registers the images   *)
(* in the document, before it parses the markup.                           *)

Failed == pc = "done" /\ ~result.ok

C12_NoPartialDocument ==
    Failed =>
        /\ result.err \in {"Error parsing XML", "Error constructing DOM"}
        /\ result.pages = <<>>
        /\ doc = EmptyDocument

----------------------------------------------------------------------------
(* C13: every image placement scales each axis by its own intrinsic size:  *)
(* scale_x is box width / intrinsic width, scale_y is box height /         *)
(* intrinsic height.  The code divides the box height by the intrinsic     *)
(* width.                                                                  *)

\* the quotient p[1] / p[2] equals num / den
IsRatio(p, num, den) == p[2] # 0 /\ den # 0 /\ p[1] * den = num * p[2]

C13_ImageScale ==
    \A i \in Idx :
        ops[i].op = "UseXObject" =>
            LET n == ops[i].node
                info == Unwrap(GetImageNode(n))
            IN  /\ IsRatio(ops[i].scale_x, node[n].width, info.width)
                /\ IsRatio(ops[i].scale_y, node[n].height, info.height)

----------------------------------------------------------------------------
(* C14: a visible text node whose font resolves and whose run has g glyphs *)
(* contributes one text section: StartTextSection, SetFillColor of the     *)
(* text color, SetTextRenderingMode Fill, SetWordSpacing 100, SetLineHeight*)
(* of the font size, g times (SetTextCursor(0,0), SetTextMatrix,           *)
(* WriteCodepoints of one glyph), EndTextSection, and nothing else.  Text  *)
(* sections are not nested and not left open, and a node with no fill and  *)
(* no border has no fill or stroke instruction.                            *)

\* n is a text node with a shaped run whose font bytes decode
Resolves(n) ==
    /\ node[n].kind = "text"
    /\ IsSome(node[n].font)
    /\ node[n].shaped
    /\ FontBytesOk(Unwrap(node[n].font))

\* n has a solid-colour background layer
HasSolidFill(n) == \E i \in 1 .. Len(node[n].bgs) : node[n].bgs[i].kind = "Color"

\* the text-layer positions of n are lo .. hi and hold one well-formed section
OneSection(n, P) ==
    LET lo == CHOOSE i \in P : \A j \in P : i <= j
        g == node[n].glyphs
        hi == lo + 5 + 3 * g
    IN  /\ P = lo .. hi
        /\ ops[lo].op = "StartTextSection"
        /\ ops[lo + 1].op = "SetFillColor"
        /\ ops[lo + 1].col = ToRgb(TextStyle.color)
        /\ ops[lo + 2].op = "SetTextRenderingMode"
        /\ ops[lo + 2].mode = "Fill"
        /\ ops[lo + 3].op = "SetWordSpacing"
        /\ ops[lo + 3].percent = 100
        /\ ops[lo + 4].op = "SetLineHeight"
        /\ ops[lo + 4].lh = TextStyle.font_size_px
        /\ \A k \in 1 .. g :
              /\ ops[lo + 2 + 3 * k].op = "SetTextCursor"
              /\ ops[lo + 2 + 3 * k].x = 0
              /\ ops[lo + 2 + 3 * k].y = 0
              /\ ops[lo + 3 + 3 * k].op = "SetTextMatrix"
              /\ ops[lo + 4 + 3 * k].op = "WriteCodepoints"
              /\ ops[lo + 4 + 3 * k].cp = k
        /\ ops[hi].op = "EndTextSection"

\* the number of text sections open after position i, or -1 when a section
\* was opened inside another or closed while none was open
RECURSIVE OpenAfter(_)
OpenAfter(i) ==
    IF i = 0 THEN 0
    ELSE LET before == OpenAfter(i - 1)
         IN  IF before = -1 THEN -1
             ELSE IF ops[i].op = "StartTextSection"
                  THEN (IF before = 0 THEN 1 ELSE -1)
             ELSE IF ops[i].op = "EndTextSection"
                  THEN (IF before = 1 THEN 0 ELSE -1)
             ELSE before

\* C14: one well-formed section per visited visible text node whose font
\* resolves, sections closed and not nested, no paint without fill or border
C14_TextSection ==
    /\ \A n \in Nodes :
          LET P == {i \in OpsOf(n) : ops[i].layer = "text"}
          IN  /\ (Finished /\ Visible(n) /\ Resolves(n)) => P # {}
              /\ (P # {} /\ Resolves(n)) => OneSection(n, P)
              /\ (~HasSolidFill(n) /\ node[n].border = None) =>
                    \A i \in OpsOf(n) : ~IsPaint(i)
    /\ OpenAfter(Len(ops)) = 0

\* a visible text node of two glyphs with no fill and no border drew its run
C14_Witness ==
    /\ Finished
    /\ \E n \in Nodes :
          /\ Visible(n) /\ Resolves(n)
          /\ node[n].glyphs = 2
          /\ ~HasSolidFill(n) /\ node[n].border = None
          /\ \E i \in OpsOf(n) : ops[i].op = "WriteCodepoints" /\ ops[i].cp = 2

----------------------------------------------------------------------------
(* C15: for the glyph at (gx, gy) of a text node at (x0, y0) on a page of  *)
(* height H the text transform is the translation (x0 + gx, H - y0 - gy),  *)
(* and the glyph-draw instruction carries the font size that was set as    *)
(* line height.  The code doubles gx in the translation and doubles the    *)
(* size.                                                                   *)

C15_GlyphPlacement ==
    \A i \in Idx :
        LET n == ops[i].node
        IN  /\ ops[i].op = "SetTextMatrix" =>
                  LET gi == GlyphAt(ops[i + 1].cp)
                  IN  /\ ops[i].tx = node[n].x + gi.x
                      /\ ops[i].ty = page_height - node[n].y - gi.y
            /\ ops[i].op = "WriteCodepoints" =>
                  /\ ops[i].size = TextStyle.font_size_px
                  /\ \E j \in OpsOf(n) :
                        ops[j].op = "SetLineHeight" /\ ops[j].lh = ops[i].size

----------------------------------------------------------------------------
(* C16: SaveGraphicsState and RestoreGraphicsState alternate, starting     *)
(* with a save and ending with a restore; a save, its restore and all that *)
(* lies between them belong to one node; a bracket holds at least one fill *)
(* or stroke instruction; a node with no solid-colour background and no    *)
(* border has no save and no restore.                                      *)

\* the number of brackets open after position i, or -1 when a save came
\* inside a bracket or a restore outside one
RECURSIVE SavedAfter(_)
SavedAfter(i) ==
    IF i = 0 THEN 0
    ELSE LET before == SavedAfter(i - 1)
         IN  IF before = -1 THEN -1
             ELSE IF ops[i].op = "SaveGraphicsState"
                  THEN (IF before = 0 THEN 1 ELSE -1)
             ELSE IF ops[i].op = "RestoreGraphicsState"
                  THEN (IF before = 1 THEN 0 ELSE -1)
             ELSE before

\* C16: brackets alternate and are closed, each is one node's and holds a
\* paint instruction, and a node without fill and border has none
C16_BracketWellFormed ==
    /\ SavedAfter(Len(ops)) = 0
    /\ \A i \in Idx :
          ops[i].op = "SaveGraphicsState" =>
              \E j \in (i + 2) .. Len(ops) :
                  /\ ops[j].op = "RestoreGraphicsState"
                  /\ ops[j].node = ops[i].node
                  /\ \A k \in (i + 1) .. (j - 1) :
                        IsPaint(k) /\ ops[k].node = ops[i].node
    /\ \A n \in Nodes :
          LET state == {i \in OpsOf(n) : ops[i].layer = "state"}
          IN  /\ state # {} => \E i \in OpsOf(n) : IsPaint(i)
              /\ Cardinality(state) \in {0, 2}
              /\ (~HasSolidFill(n) /\ node[n].border = None) => state = {}

\* two nodes drew a bracket each, with a text section between the brackets
C16_Witness ==
    /\ Finished
    /\ \E i, k \in Idx :
          /\ i < k
          /\ ops[i].op = "RestoreGraphicsState"
          /\ ops[k].op = "SaveGraphicsState"
          /\ ops[i].node # ops[k].node
          /\ \E t \in (i + 1) .. (k - 1) : ops[t].layer = "text"

----------------------------------------------------------------------------
(* C17: at every point of the walk every WriteCodepoints in the stream     *)
(* names a font id that is in the font table; an entry of the table is     *)
(* never removed or overwritten; a text node whose font bytes do not       *)
(* decode has no text section; a text node with display none inserts no    *)
(* entry.                                                                  *)

\* the state part: references resolve, no section without a font, no entry
\* made by a node with display none
FontsResolve ==
    /\ \A i \in Idx :
          ops[i].op = "WriteCodepoints" =>
              /\ ops[i].font \in DOMAIN doc.fonts
              /\ ops[i].font = FontIdOf(Unwrap(node[ops[i].node].font))
    /\ \A n \in Nodes :
          /\ (node[n].kind = "text" /\ IsSome(node[n].font)
                  /\ ~FontBytesOk(Unwrap(node[n].font))) =>
                \A i \in OpsOf(n) : ops[i].layer # "text"
          /\ node[n].hidden =>
                \A id \in DOMAIN doc.fonts : doc.fonts[id].by # n

\* the step part: every entry is kept as it is
FontsKept ==
    \A id \in DOMAIN doc.fonts :
        /\ id \in DOMAIN doc'.fonts
        /\ doc'.fonts[id] = doc.fonts[id]

\* C17: the font references resolve in every state and every step keeps
\* the entries of the font table
C17_FontIntegrity == [](FontsResolve) /\ [][FontsKept]_vars

\* two text nodes drew glyphs with the same font, the entry is the first
\* one's; a text node whose font does not decode and a text node with
\* display none are in the tree
C17_Witness ==
    /\ Finished
    /\ \E i, j \in Idx :
          /\ i < j
          /\ ops[i].op = "WriteCodepoints"
          /\ ops[j].op = "WriteCodepoints"
          /\ ops[i].node # ops[j].node
          /\ ops[i].font = ops[j].font
          /\ doc.fonts[ops[j].font].by = ops[i].node
    /\ \E n \in Nodes :
          /\ node[n].kind = "text" /\ ~FontBytesOk(Unwrap(node[n].font))
          /\ OpsOf(n) # {}
    /\ \E n \in Nodes : node[n].kind = "text" /\ node[n].hidden

====
